---- MODULE Spec2Model ----
(***************************************************************************)
(* One SOCKS5 server connection of fast-socks5 (src/src/server.rs): the    *)
(* task that runs Socks5Socket::upgrade_to_socks5 on one client stream.    *)
(* Every await point of the code (a read_exact!, a write, the resolver,    *)
(* the outbound connect, the relay) is one action.  The client, the        *)
(* resolver and the target are the environment: each action draws what     *)
(* they do from small sets.                                                *)
(***************************************************************************)
EXTENDS Integers, Sequences, FiniteSets, TLC

(* ------------------------------ bounds --------------------------------- *)
\* longest method list a client sends (NMETHODS)
MaxMethods == 2
\* longest username / password a client sends (ULEN, PLEN)
MaxCredLen == 2
\* longest domain name a client sends
MaxDomainLen == 2
\* most chunks one relay direction copies
MaxRelay == 1

(* ------------------------ protocol constants --------------------------- *)
SOCKS5_VERSION == 5
SOCKS5_AUTH_METHOD_NONE == 0
SOCKS5_AUTH_METHOD_PASSWORD == 2
SOCKS5_AUTH_METHOD_NOT_ACCEPTABLE == 255
SOCKS5_CMD_TCP_CONNECT == 1
SOCKS5_REPLY_SUCCEEDED == 0
SOCKS5_ADDR_TYPE_IPV4 == 1
SOCKS5_ADDR_TYPE_DOMAIN_NAME == 3
SOCKS5_ADDR_TYPE_IPV6 == 4

\* ReplyError::as_u8: the reply code of each ReplyError
as_u8(e) ==
    CASE e = "Succeeded" -> 0
      [] e = "GeneralFailure" -> 1
      [] e = "ConnectionNotAllowed" -> 2
      [] e = "NetworkUnreachable" -> 3
      [] e = "HostUnreachable" -> 4
      [] e = "ConnectionRefused" -> 5
      [] e = "TtlExpired" -> 6
      [] e = "CommandNotSupported" -> 7
      [] e = "AddressTypeNotSupported" -> 8

ReplyErrors ==
    {"GeneralFailure", "ConnectionNotAllowed", "NetworkUnreachable",
     "HostUnreachable", "ConnectionRefused", "TtlExpired",
     "CommandNotSupported", "AddressTypeNotSupported"}

(* ----------------------- what the environment sends -------------------- *)
SeqsUpTo(S, n) == UNION {[1..k -> S] : k \in 0..n}
SeqsOfLen(S, n) == [1..n -> S]

\* bytes a client puts in the VER position of a message
VersionBytes == {4, 5}
\* bytes a client puts in its method list
MethodBytes == {0, 2}
\* bytes a client puts in the VER position of the sub-negotiation
AuthVersionBytes == {1, 5}
\* bytes of usernames and passwords: 'a', and 0xFF (never valid in UTF-8)
CredBytes == {97, 255}
\* values of Config.request_timeout, in seconds
RequestTimeouts == {0, 2}
\* request header bytes
CmdBytes == {1, 2, 3}
RsvBytes == {0}
AtypBytes == {1, 3, 4, 9}
\* bytes of domain names: 'a', NUL, and 0xFF
DomainBytes == {97, 0, 255}

(* ------------------------------- values -------------------------------- *)
\* Option<TargetAddr>
NoTarget == [tag |-> "None", host |-> <<>>, port |-> 0]
Ip(host, port) == [tag |-> "Ip", host |-> host, port |-> port]
Domain(name, port) == [tag |-> "Domain", host |-> name, port |-> port]

\* AuthenticationMethod
AuthNone == [tag |-> "None", username |-> <<>>, password |-> <<>>]
AuthPassword(u, p) == [tag |-> "Password", username |-> u, password |-> p]

\* Option<Arc<dyn Authentication>>: None, or a SimpleUserPassword
NoAuthenticator == [tag |-> "None", username |-> <<>>, password |-> <<>>]
SimpleUserPassword(u, p) == [tag |-> "Some", username |-> u, password |-> p]
Authenticators == {SimpleUserPassword(<<97>>, <<97, 97>>)}

\* Result<Socks5Socket<T>> of upgrade_to_socks5, "Running" until it returns
Running == [tag |-> "Running", kind |-> "-", reply |-> "-"]
Ok == [tag |-> "Ok", kind |-> "-", reply |-> "-"]
Err(kind) == [tag |-> "Err", kind |-> kind, reply |-> "-"]
ErrReply(e) == [tag |-> "Err", kind |-> "ReplyError", reply |-> e]

\* one read or write on the client stream `inner`
Event(op, what, bytes) == [op |-> op, what |-> what, bytes |-> bytes]

(* --------------------------- pure functions ---------------------------- *)
\* Vec::contains
contains(v, x) == \E i \in DOMAIN v : v[i] = x

\* String::from_utf8 succeeds exactly on well-formed UTF-8 (the String then
\* holds the same bytes)
RECURSIVE from_utf8_ok(_)
from_utf8_ok(b) ==
    IF b = <<>> THEN TRUE
    ELSE LET c == Head(b)
             n == Len(b)
             cont(i) == i <= n /\ b[i] \in 128..191
         IN  IF c < 128 THEN from_utf8_ok(Tail(b))
             ELSE IF c \in 194..223
                  THEN cont(2) /\ from_utf8_ok(SubSeq(b, 3, n))
             ELSE IF c \in 224..239
                  THEN /\ cont(2) /\ cont(3)
                       /\ (c = 224 => b[2] >= 160)
                       /\ (c = 237 => b[2] <= 159)
                       /\ from_utf8_ok(SubSeq(b, 4, n))
             ELSE IF c \in 240..244
                  THEN /\ cont(2) /\ cont(3) /\ cont(4)
                       /\ (c = 240 => b[2] >= 144)
                       /\ (c = 244 => b[2] <= 143)
                       /\ from_utf8_ok(SubSeq(b, 5, n))
             ELSE FALSE

\* <SimpleUserPassword as Authentication>::authenticate
simple_authenticate(a, u, p) == u = a.username /\ p = a.password

\* mutant: the authenticator is ignored when the method is chosen
method_supported_mut(cfg) == SOCKS5_AUTH_METHOD_NONE

\* can_accept_method: the method this server requires
method_supported(cfg) ==
    IF cfg.auth.tag = "Some" THEN SOCKS5_AUTH_METHOD_PASSWORD
    ELSE SOCKS5_AUTH_METHOD_NONE

\* can_accept_method: the two bytes it writes for a client's method list
method_reply(cfg, client_methods) ==
    IF ~contains(client_methods, method_supported(cfg))
    THEN <<SOCKS5_VERSION, SOCKS5_AUTH_METHOD_NOT_ACCEPTABLE>>
    ELSE <<SOCKS5_VERSION, method_supported(cfg)>>

\* mutant: the success status is written whatever the authenticator said
auth_status_bytes_mut(accepted) == <<1, SOCKS5_REPLY_SUCCEEDED>>

\* authenticate: the two bytes written after the authenticator answered
auth_status_bytes(accepted) ==
    IF accepted THEN <<1, SOCKS5_REPLY_SUCCEEDED>>
    ELSE <<1, SOCKS5_AUTH_METHOD_NOT_ACCEPTABLE>>

\* mutant: the code and the reserved byte change places
reply_bytes_mut(e) == <<SOCKS5_VERSION, 0, as_u8(e), 1, 127, 0, 0, 1, 0, 0>>

\* reply: the ten bytes written for a ReplyError
reply_bytes(e) == <<SOCKS5_VERSION, as_u8(e), 0, 1, 127, 0, 0, 1, 0, 0>>

\* execute_command: the ten bytes written after the outbound connect
success_bytes == <<SOCKS5_VERSION, SOCKS5_REPLY_SUCCEEDED, 0, 1, 127, 0, 0, 1, 0, 0>>

\* mutant: the skip_auth test is inverted
after_upgrade_mut(cfg) == IF cfg.skip_auth THEN "get_methods" ELSE "read_command"

\* upgrade_to_socks5: where the task goes first
after_upgrade(cfg) == IF cfg.skip_auth = FALSE THEN "get_methods" ELSE "read_command"

\* mutant: get_methods returns without reading the method bytes
after_methods_header_mut == "can_accept_method"

\* get_methods: what follows a header with VER = 5
after_methods_header == "get_methods_body"

\* upgrade_to_socks5: what follows get_methods
after_get_methods == "can_accept_method"

\* upgrade_to_socks5: what follows an accepted method
after_can_accept_method_mut(cfg) == "read_command"
\* upgrade_to_socks5: what follows can_accept_method
after_can_accept_method(cfg) ==
    IF cfg.auth.tag = "Some" THEN "authenticate" ELSE "read_command"

\* mutant: the command is executed whatever execute_command says
after_resolve_dns_mut(cfg) == "execute_command"

after_connected_mut == "transfer"
\* execute_command: what follows a successful outbound connect
after_connected == "write_success"

\* request: what follows resolve_dns ("done": request returns Ok)
after_resolve_dns(cfg) == IF cfg.execute_command THEN "execute_command" ELSE "done"

after_read_command_mut(cfg) == after_resolve_dns(cfg)
\* request: what follows read_command
after_read_command(cfg) ==
    IF cfg.dns_resolve THEN "resolve_dns" ELSE after_resolve_dns(cfg)

\* mutant: every error of request() ends the task without a reply
request_error_is_replied_mut(e) == FALSE

\* upgrade_to_socks5: an error of request() that is a ReplyError is replied
\* to the client, any other ends the task at once
request_error_is_replied(e) == e.kind = "ReplyError"

\* mutant: the ConnectionReset arm is missing
connect_error_mut(kind) ==
    CASE kind = "ConnectionRefused" -> ErrReply("ConnectionRefused")
      [] kind = "ConnectionAborted" -> ErrReply("ConnectionNotAllowed")
      [] kind = "NotConnected" -> ErrReply("NetworkUnreachable")
      [] OTHER -> Err("Io")

\* execute_command: the error an outbound connect failure becomes
connect_error(kind) ==
    CASE kind = "ConnectionRefused" -> ErrReply("ConnectionRefused")
      [] kind = "ConnectionAborted" -> ErrReply("ConnectionNotAllowed")
      [] kind = "ConnectionReset" -> ErrReply("ConnectionNotAllowed")
      [] kind = "NotConnected" -> ErrReply("NetworkUnreachable")
      [] OTHER -> Err("Io")

\* execute_command: the error the expired timeout becomes
timeout_error == ErrReply("TtlExpired")

\* TargetAddr::resolve_dns: the error a failed resolution becomes
resolve_error == ErrReply("HostUnreachable")

address_error_mut == ErrReply("GeneralFailure")
\* read_command: the error a failed address parse becomes
address_error == ErrReply("AddressTypeNotSupported")

\* mutant: the wrong ReplyError is returned for an unsupported command
command_error_mut == ErrReply("GeneralFailure")

\* read_command: the error a command other than CONNECT becomes
command_error == ErrReply("CommandNotSupported")

\* io::ErrorKind of a failed TcpStream::connect
ConnectErrorKinds ==
    {"ConnectionRefused", "ConnectionAborted", "ConnectionReset",
     "NotConnected", "PermissionDenied"}

(* --------------------------- address codec ----------------------------- *)
Prefixes(s) == {SubSeq(s, 1, k) : k \in 0..Len(s)}
Port(hi, lo) == hi * 256 + lo

\* read_address: parse one address of type atyp from the bytes `avail` the
\* client sends before it closes; `consumed` are the bytes taken off the
\* stream.  A failure is "eof" (the stream ended inside the address) or
\* "malformed" (the bytes read are not an address)
read_address(atyp, avail) ==
    LET n == Len(avail)
        fail(why, k) == [ok |-> FALSE, why |-> why, addr |-> NoTarget,
                         consumed |-> SubSeq(avail, 1, k)]
        fixed(len) ==
            IF n < len + 2 THEN fail("eof", n)
            ELSE [ok |-> TRUE, why |-> "-",
                  addr |-> Ip(SubSeq(avail, 1, len), Port(avail[len + 1], avail[len + 2])),
                  consumed |-> SubSeq(avail, 1, len + 2)]
    IN  IF atyp = SOCKS5_ADDR_TYPE_IPV4 THEN fixed(4)
        ELSE IF atyp = SOCKS5_ADDR_TYPE_IPV6 THEN fixed(16)
        ELSE IF atyp = SOCKS5_ADDR_TYPE_DOMAIN_NAME
        THEN IF n = 0 THEN fail("eof", 0)
             ELSE LET len == avail[1]
                      name == SubSeq(avail, 2, len + 1)
                  IN  IF len = 0 THEN fail("malformed", 1)
                      ELSE IF n < len + 1 THEN fail("eof", n)
                      ELSE IF ~from_utf8_ok(name) \/ name[len] = 0 THEN fail("malformed", len + 1)
                      ELSE IF n < len + 3 THEN fail("eof", n)
                      ELSE [ok |-> TRUE, why |-> "-",
                            addr |-> Domain(name, Port(avail[len + 2], avail[len + 3])),
                            consumed |-> SubSeq(avail, 1, len + 3)]
        ELSE fail("malformed", 0)

\* the address bytes a client sends after a header with address type atyp,
\* before it closes: every prefix of a complete address of that type
V4Inputs == {<<127, 0, 0, 1, 0, 80>>, <<127, 0, 0, 1, 31, 144>>}
V6Inputs == {<<0, 0, 0, 0, 0, 0, 0, 0, 0, 0, 0, 0, 0, 0, 0, 1, 0, 80>>}
DomainInputs ==
    {<<Len(name)>> \o name \o <<0, 80>> : name \in SeqsUpTo(DomainBytes, MaxDomainLen)}
AddrInputs(atyp) ==
    UNION {Prefixes(s) :
           s \in IF atyp = SOCKS5_ADDR_TYPE_IPV4 THEN V4Inputs
                 ELSE IF atyp = SOCKS5_ADDR_TYPE_IPV6 THEN V6Inputs
                 ELSE IF atyp = SOCKS5_ADDR_TYPE_DOMAIN_NAME THEN DomainInputs
                 ELSE V4Inputs}

\* addresses the resolver answers with
ResolvedHosts == {<<93, 184, 216, 34>>}

(* ------------------------------- state --------------------------------- *)
VARIABLES
    config,          \* Socks5Socket.config
    auth,            \* Socks5Socket.auth
    target_addr,     \* Socks5Socket.target_addr
    inner,           \* Socks5Socket.inner: the reads and writes made on it, in order
    pc,              \* where the task running upgrade_to_socks5 is
    result,          \* what upgrade_to_socks5 returned
    methods_len,     \* get_methods
    methods,         \* get_methods / can_accept_method(client_methods)
    user_len,        \* authenticate
    username,        \* authenticate
    pass_len,        \* authenticate
    password,        \* authenticate
    address_type,    \* read_command
    reply_error,     \* upgrade_to_socks5: the ReplyError `e` to reply with
    auth_calls,      \* the calls made to Authentication::authenticate, in order
    dns_calls,       \* how many times upgrade_to_socks5 asked the resolver
    connect_calls,   \* how many TcpStream::connect were started
    connect_outcome, \* how the outbound connect ended
    elapsed,         \* seconds since the outbound connect started
    relayed,         \* transfer: chunks copied in each direction, the state of
                     \* the two peers, and the copy select returned with and how
    manual_resolve   \* the embedder's own call of resolve_dns on the returned
                     \* connection: what it returned, and target_addr before it

hsVars == <<methods_len, methods, user_len, username, pass_len, password>>
reqVars == <<address_type, reply_error, dns_calls, connect_calls, connect_outcome, elapsed, relayed>>
vars == <<config, auth, target_addr, inner, pc, result, hsVars, reqVars, auth_calls, manual_resolve>>

Configs ==
    [request_timeout : RequestTimeouts,
     skip_auth : BOOLEAN,
     dns_resolve : BOOLEAN,
     execute_command : BOOLEAN,
     auth : {NoAuthenticator} \cup Authenticators]

\* Socks5Socket::new, on a stream and any Config
Init ==
    /\ config \in Configs
    /\ auth = AuthNone
    /\ target_addr = NoTarget
    /\ inner = <<>>
    /\ pc = "upgrade"
    /\ result = Running
    /\ methods_len = 0
    /\ methods = <<>>
    /\ user_len = 0
    /\ username = <<>>
    /\ pass_len = 0
    /\ password = <<>>
    /\ address_type = 0
    /\ reply_error = "-"
    /\ auth_calls = <<>>
    /\ dns_calls = 0
    /\ connect_calls = 0
    /\ connect_outcome = "-"
    /\ elapsed = 0
    /\ relayed = [client_to_target |-> 0, target_to_client |-> 0,
                  client |-> "open", target |-> "open",
                  finished |-> "-", how |-> "-"]
    /\ manual_resolve = [returned |-> "-", before |-> NoTarget]

(* ------------------------------ plumbing ------------------------------- *)
\* upgrade_to_socks5 returns r
Return(r) == pc' = "done" /\ result' = r

\* the task goes on at `next`; "done" is request() returning Ok
Goto(next) ==
    IF next = "done" THEN Return(Ok) ELSE pc' = next /\ UNCHANGED result

\* a request() error e reaches upgrade_to_socks5's match
RequestFails(e) ==
    IF request_error_is_replied(e)
    THEN pc' = "reply" /\ reply_error' = e.reply /\ UNCHANGED result
    ELSE Return(e) /\ UNCHANGED reply_error

\* read_exact! fails: the client closed before the field was complete; the
\* io::Error is wrapped by .context() and ends the task
ReadFails(what) ==
    /\ inner' = Append(inner, Event("read_failed", what, <<>>))
    /\ Return(Err("Other"))

WriteOutcomes == {"ok", "err"}
WriteOp(w) == IF w = "ok" THEN "write" ELSE "write_failed"

(* ----------------------------- handshake ------------------------------- *)
\* upgrade_to_socks5: entry
upgrade_to_socks5 ==
    /\ pc = "upgrade"
    /\ pc' = after_upgrade(config)
    /\ UNCHANGED <<config, manual_resolve, auth, target_addr, inner, result, hsVars, reqVars, auth_calls>>

\* get_methods: read [version, methods_len]
get_methods_header ==
    /\ pc = "get_methods"
    /\ \/ \E version \in VersionBytes, len \in 0..MaxMethods :
            /\ inner' = Append(inner, Event("read", "methods_header", <<version, len>>))
            /\ IF version # SOCKS5_VERSION
               THEN Return(Err("UnsupportedSocksVersion")) /\ UNCHANGED methods_len
               ELSE pc' = after_methods_header /\ methods_len' = len /\ UNCHANGED result
       \/ ReadFails("methods_header") /\ UNCHANGED methods_len
    /\ UNCHANGED <<config, manual_resolve, auth, target_addr, reqVars, auth_calls>>
    /\ UNCHANGED <<methods, user_len, username, pass_len, password>>

\* get_methods: read the methods_len method bytes
get_methods_body ==
    /\ pc = "get_methods_body"
    /\ \/ \E bytes \in SeqsOfLen(MethodBytes, methods_len) :
            /\ inner' = Append(inner, Event("read", "methods", bytes))
            /\ methods' = bytes
            /\ pc' = after_get_methods
            /\ UNCHANGED result
       \/ /\ methods_len > 0
          /\ ReadFails("methods")
          /\ UNCHANGED methods
    /\ UNCHANGED <<config, manual_resolve, auth, target_addr, reqVars, auth_calls>>
    /\ UNCHANGED <<methods_len, user_len, username, pass_len, password>>

\* can_accept_method: write [5, method] or [5, 0xff]
can_accept_method ==
    /\ pc = "can_accept_method"
    /\ \E w \in WriteOutcomes :
        /\ inner' = Append(inner, Event(WriteOp(w), "method_reply", method_reply(config, methods)))
        /\ IF w # "ok" THEN Return(Err("Other"))
           ELSE IF ~contains(methods, method_supported(config))
           THEN Return(Err("AuthMethodUnacceptable"))
           ELSE pc' = after_can_accept_method(config) /\ UNCHANGED result
    /\ UNCHANGED <<config, manual_resolve, auth, target_addr, hsVars, reqVars, auth_calls>>

\* authenticate: read [version, user_len]
authenticate_header ==
    /\ pc = "authenticate"
    /\ \/ \E version \in AuthVersionBytes, len \in 0..MaxCredLen :
            /\ inner' = Append(inner, Event("read", "auth_header", <<version, len>>))
            /\ IF len < 1
               THEN Return(Err("AuthenticationFailed")) /\ UNCHANGED user_len
               ELSE pc' = "authenticate_username" /\ user_len' = len /\ UNCHANGED result
       \/ ReadFails("auth_header") /\ UNCHANGED user_len
    /\ UNCHANGED <<config, manual_resolve, auth, target_addr, reqVars, auth_calls>>
    /\ UNCHANGED <<methods_len, methods, username, pass_len, password>>

\* authenticate: read the user_len username bytes
authenticate_username ==
    /\ pc = "authenticate_username"
    /\ \/ \E bytes \in SeqsOfLen(CredBytes, user_len) :
            /\ inner' = Append(inner, Event("read", "username", bytes))
            /\ username' = bytes
            /\ pc' = "authenticate_pass_len"
            /\ UNCHANGED result
       \/ ReadFails("username") /\ UNCHANGED username
    /\ UNCHANGED <<config, manual_resolve, auth, target_addr, reqVars, auth_calls>>
    /\ UNCHANGED <<methods_len, methods, user_len, pass_len, password>>

\* authenticate: read [pass_len]
authenticate_pass_len ==
    /\ pc = "authenticate_pass_len"
    /\ \/ \E len \in 0..MaxCredLen :
            /\ inner' = Append(inner, Event("read", "pass_len", <<len>>))
            /\ IF len < 1
               THEN Return(Err("AuthenticationFailed")) /\ UNCHANGED pass_len
               ELSE pc' = "authenticate_password" /\ pass_len' = len /\ UNCHANGED result
       \/ ReadFails("pass_len") /\ UNCHANGED pass_len
    /\ UNCHANGED <<config, manual_resolve, auth, target_addr, reqVars, auth_calls>>
    /\ UNCHANGED <<methods_len, methods, user_len, username, password>>

\* authenticate: read the pass_len password bytes
authenticate_password ==
    /\ pc = "authenticate_password"
    /\ \/ \E bytes \in SeqsOfLen(CredBytes, pass_len) :
            /\ inner' = Append(inner, Event("read", "password", bytes))
            /\ password' = bytes
            /\ pc' = "authenticate_verify"
            /\ UNCHANGED result
       \/ ReadFails("password") /\ UNCHANGED password
    /\ UNCHANGED <<config, manual_resolve, auth, target_addr, reqVars, auth_calls>>
    /\ UNCHANGED <<methods_len, methods, user_len, username, pass_len>>

\* authenticate: decode, ask the authenticator, write the status; then
\* upgrade_to_socks5 stores the credentials in self.auth
authenticate_verify ==
    /\ pc = "authenticate_verify"
    /\ IF ~from_utf8_ok(username) \/ ~from_utf8_ok(password)
       THEN /\ Return(Err("Other"))
            /\ UNCHANGED <<inner, auth, auth_calls>>
       ELSE LET accepted == simple_authenticate(config.auth, username, password)
            IN  /\ auth_calls' = Append(auth_calls,
                       [username |-> username, password |-> password, accepted |-> accepted])
                /\ \E w \in WriteOutcomes :
                    /\ inner' = Append(inner, Event(WriteOp(w), "auth_status", auth_status_bytes(accepted)))
                    /\ IF w # "ok" THEN Return(Err("Other")) /\ UNCHANGED auth
                       ELSE IF ~accepted
                       THEN Return(Err("AuthenticationRejected")) /\ UNCHANGED auth
                       ELSE /\ auth' = AuthPassword(username, password)
                            /\ pc' = "read_command"
                            /\ UNCHANGED result
    /\ UNCHANGED <<config, manual_resolve, target_addr, hsVars, reqVars>>

(* ------------------------------ request -------------------------------- *)
\* read_command: read [version, cmd, rsv, address_type]
read_command_header ==
    /\ pc = "read_command"
    /\ \/ \E version \in VersionBytes, cmd \in CmdBytes, rsv \in RsvBytes, atyp \in AtypBytes :
            /\ inner' = Append(inner, Event("read", "request_header", <<version, cmd, rsv, atyp>>))
            /\ IF version # SOCKS5_VERSION
               THEN /\ RequestFails(Err("UnsupportedSocksVersion"))
                    /\ UNCHANGED address_type
               ELSE IF cmd # SOCKS5_CMD_TCP_CONNECT
               THEN /\ RequestFails(command_error)
                    /\ UNCHANGED address_type
               ELSE /\ pc' = "read_address"
                    /\ address_type' = atyp
                    /\ UNCHANGED <<result, reply_error>>
       \/ /\ ReadFails("request_header")
          /\ UNCHANGED <<address_type, reply_error>>
    /\ UNCHANGED <<config, manual_resolve, auth, target_addr, hsVars, auth_calls>>
    /\ UNCHANGED <<dns_calls, connect_calls, connect_outcome, elapsed, relayed>>

\* how a read_address result is logged: a successful read, a read cut short
\* by the end of the stream, or a read of bytes that are not an address
AddressOp(r) ==
    IF r.ok THEN "read" ELSE IF r.why = "eof" THEN "read_failed" ELSE "read_rejected"

\* read_command: read_address, then store the target
read_command_address ==
    /\ pc = "read_address"
    /\ \E avail \in AddrInputs(address_type) :
        LET r == read_address(address_type, avail)
        IN  /\ inner' = Append(inner,
                   Event(AddressOp(r), "address", r.consumed))
            /\ IF r.ok
               THEN /\ target_addr' = r.addr
                    /\ Goto(after_read_command(config))
                    /\ UNCHANGED reply_error
               ELSE /\ RequestFails(address_error)
                    /\ UNCHANGED target_addr
    /\ UNCHANGED <<config, manual_resolve, auth, hsVars, auth_calls, address_type>>
    /\ UNCHANGED <<dns_calls, connect_calls, connect_outcome, elapsed, relayed>>

\* resolve_dns: what self.target_addr holds when the resolution of the
\* Domain `t` failed: the target was taken out of the Option by take() and
\* the `?` returns before anything is stored back
after_failed_resolution(t) == NoTarget

\* resolve_dns, called by request when config.dns_resolve
resolve_dns ==
    /\ pc = "resolve_dns"
    /\ IF target_addr.tag = "Domain"
       THEN /\ dns_calls' = dns_calls + 1
            /\ \/ \E host \in ResolvedHosts :
                    /\ target_addr' = Ip(host, target_addr.port)
                    /\ Goto(after_resolve_dns(config))
                    /\ UNCHANGED reply_error
               \/ /\ target_addr' = after_failed_resolution(target_addr)
                  /\ RequestFails(resolve_error)
       ELSE /\ Goto(after_resolve_dns(config))
            /\ UNCHANGED <<target_addr, dns_calls, reply_error>>
    /\ UNCHANGED <<config, manual_resolve, auth, inner, hsVars, auth_calls, address_type>>
    /\ UNCHANGED <<connect_calls, connect_outcome, elapsed, relayed>>

\* execute_command: turn the target into a socket address and start the
\* outbound connect under the timeout
execute_command ==
    /\ pc = "execute_command"
    /\ \/ /\ target_addr.tag \in {"Ip", "Domain"}
          /\ pc' = "connect"
          /\ connect_calls' = connect_calls + 1
          /\ elapsed' = 0
          /\ UNCHANGED <<result, reply_error>>
       \/ /\ target_addr.tag = "Domain"
          /\ RequestFails(Err("Io"))
          /\ UNCHANGED <<connect_calls, elapsed>>
       \/ /\ target_addr.tag = "None"
          /\ RequestFails(Err("Other"))
          /\ UNCHANGED <<connect_calls, elapsed>>
    /\ UNCHANGED <<config, manual_resolve, auth, target_addr, inner, hsVars, auth_calls, address_type>>
    /\ UNCHANGED <<dns_calls, connect_outcome, relayed>>

\* a second passes while the outbound connect is pending
tick ==
    /\ pc = "connect"
    /\ elapsed < config.request_timeout
    /\ elapsed' = elapsed + 1
    /\ UNCHANGED <<config, manual_resolve, auth, target_addr, inner, pc, result, hsVars, auth_calls>>
    /\ UNCHANGED <<address_type, reply_error, dns_calls, connect_calls, connect_outcome, relayed>>

\* execute_command: TcpStream::connect completes before the timeout fires
connect_completes ==
    /\ pc = "connect"
    /\ \/ /\ connect_outcome' = "Connected"
          /\ pc' = after_connected
          /\ UNCHANGED <<result, reply_error>>
       \/ \E kind \in ConnectErrorKinds :
            /\ connect_outcome' = kind
            /\ RequestFails(connect_error(kind))
    /\ UNCHANGED <<config, manual_resolve, auth, target_addr, inner, hsVars, auth_calls>>
    /\ UNCHANGED <<address_type, dns_calls, connect_calls, elapsed, relayed>>

\* execute_command: the timeout fires while the connect is pending
connect_times_out ==
    /\ pc = "connect"
    /\ elapsed >= config.request_timeout
    /\ connect_outcome' = "TimedOut"
    /\ RequestFails(timeout_error)
    /\ UNCHANGED <<config, manual_resolve, auth, target_addr, inner, hsVars, auth_calls>>
    /\ UNCHANGED <<address_type, dns_calls, connect_calls, elapsed, relayed>>

\* a write of a ten-byte reply followed by a flush: the write fails, the
\* flush fails, or both succeed
ReplyOutcomes == {"ok", "write_err", "flush_err"}
ReplyOp(w) == IF w = "write_err" THEN "write_failed" ELSE "write"

\* execute_command: write the success reply and flush
write_success ==
    /\ pc = "write_success"
    /\ \E w \in ReplyOutcomes :
        /\ inner' = Append(inner, Event(ReplyOp(w), "request_reply", success_bytes))
        /\ IF w = "ok"
           THEN pc' = "transfer" /\ UNCHANGED <<result, reply_error>>
           ELSE RequestFails(Err("Other"))
    /\ UNCHANGED <<config, manual_resolve, auth, target_addr, hsVars, auth_calls>>
    /\ UNCHANGED <<address_type, dns_calls, connect_calls, connect_outcome, elapsed, relayed>>

\* upgrade_to_socks5: reply(&e) for the ReplyError request() returned, then
\* return it
reply ==
    /\ pc = "reply"
    /\ \E w \in ReplyOutcomes :
        /\ inner' = Append(inner, Event(ReplyOp(w), "request_reply", reply_bytes(reply_error)))
        /\ Return(IF w = "ok" THEN ErrReply(reply_error) ELSE Err("Other"))
    /\ UNCHANGED <<config, manual_resolve, auth, target_addr, hsVars, reqVars, auth_calls>>

(* ------------------------------- relay --------------------------------- *)
Directions == {"client_to_target", "target_to_client"}

\* inbound_to_outbound = copy(ri, wo), outbound_to_inbound = copy(ro, wi)
src(d) == IF d = "client_to_target" THEN "client" ELSE "target"
dst(d) == IF d = "client_to_target" THEN "target" ELSE "client"

\* a peer is "open" (it may send, or stay silent), "closed" (it shut its
\* sending side down: reads from it give EOF) or "reset" (reads from it and
\* writes to it fail)
PeerEnds == {"closed", "reset"}

\* how the copy in direction d stands: it completes with Ok at the EOF of
\* its reader and with Err at an I/O error, and is pending while its reader
\* is open.  A write can fail only toward a reset peer, and the read of the
\* copy in the other direction has failed by then.
copy_status(d, r) ==
    IF r[src(d)] = "closed" THEN "eof"
    ELSE IF r[src(d)] = "reset" THEN "error"
    ELSE "pending"

\* the copies that have completed
completed(r) == {d \in Directions : copy_status(d, r) # "pending"}

select_returns_mut(done) == done = Directions
\* futures::future::select resolves when either of its two futures has
\* completed
select_returns(done) == done # {}

transfer_result_mut(how) == IF how = "error" THEN Err("Io") ELSE Ok
\* all four arms of the match only log; transfer then returns Ok(())
transfer_result(how) == Ok

\* a peer closes or resets its connection while the relay runs
peer_ends ==
    /\ pc = "transfer"
    /\ \E p \in {"client", "target"}, e \in PeerEnds :
        /\ relayed[p] = "open"
        /\ relayed' = [relayed EXCEPT ![p] = e]
    /\ UNCHANGED <<config, manual_resolve, auth, target_addr, inner, pc, result, hsVars, auth_calls>>
    /\ UNCHANGED <<address_type, reply_error, dns_calls, connect_calls, connect_outcome, elapsed>>

\* transfer: one of the two copies moves a chunk from its open reader to
\* its writer
copy ==
    /\ pc = "transfer"
    /\ \E d \in Directions :
        /\ relayed[src(d)] = "open" /\ relayed[dst(d)] # "reset"
        /\ relayed[d] < MaxRelay
        /\ relayed' = [relayed EXCEPT ![d] = @ + 1]
    /\ UNCHANGED <<config, manual_resolve, auth, target_addr, inner, pc, result, hsVars, auth_calls>>
    /\ UNCHANGED <<address_type, reply_error, dns_calls, connect_calls, connect_outcome, elapsed>>

\* transfer: select resolves with a copy that completed, by EOF or by
\* error; transfer returns, and so do execute_command, request and
\* upgrade_to_socks5
transfer ==
    /\ pc = "transfer"
    /\ select_returns(completed(relayed))
    /\ \E d \in completed(relayed) :
        /\ relayed' = [relayed EXCEPT !.finished = d, !.how = copy_status(d, relayed)]
        /\ Return(transfer_result(copy_status(d, relayed)))
    /\ UNCHANGED <<config, manual_resolve, auth, target_addr, inner, hsVars, auth_calls>>
    /\ UNCHANGED <<address_type, reply_error, dns_calls, connect_calls, connect_outcome, elapsed>>

(* ------------------------- the public resolve_dns --------------------- *)
\* resolve_dns, called by the embedder that turned config.dns_resolve and
\* config.execute_command off to handle the target itself, on the
\* connection upgrade_to_socks5 returned, and again as long as the call
\* fails
call_resolve_dns ==
    /\ pc = "done" /\ result = Ok
    /\ ~config.dns_resolve /\ ~config.execute_command
    /\ manual_resolve.returned # "Ok"
    /\ IF target_addr.tag = "Domain"
       THEN \/ \E host \in ResolvedHosts :
                 /\ target_addr' = Ip(host, target_addr.port)
                 /\ manual_resolve' = [returned |-> "Ok", before |-> target_addr]
            \/ /\ target_addr' = after_failed_resolution(target_addr)
               /\ manual_resolve' = [returned |-> "Err", before |-> target_addr]
       ELSE /\ UNCHANGED target_addr
            /\ manual_resolve' = [returned |-> "Ok", before |-> target_addr]
    /\ UNCHANGED <<config, auth, inner, pc, result, hsVars, reqVars, auth_calls>>

(* ---------------------------- specification ---------------------------- *)
Next ==
    \/ upgrade_to_socks5
    \/ get_methods_header
    \/ get_methods_body
    \/ can_accept_method
    \/ authenticate_header
    \/ authenticate_username
    \/ authenticate_pass_len
    \/ authenticate_password
    \/ authenticate_verify
    \/ read_command_header
    \/ read_command_address
    \/ resolve_dns
    \/ execute_command
    \/ tick
    \/ connect_completes
    \/ connect_times_out
    \/ write_success
    \/ reply
    \/ peer_ends
    \/ copy
    \/ transfer
    \/ call_resolve_dns

Spec == Init /\ [][Next]_vars

\* the executor polls the task again once one of the copies has completed:
\* a relay whose select can return does return
FairSpec == Spec /\ WF_vars(transfer)

(* ------------------------- reading the stream log ---------------------- *)
\* positions of the write calls of one kind of message (failed ones included)
Writes(what) ==
    {i \in DOMAIN inner : inner[i].what = what /\ inner[i].op \in {"write", "write_failed"}}

\* positions of the completed reads of one field
Reads(what) == {i \in DOMAIN inner : inner[i].what = what /\ inner[i].op = "read"}

\* positions where a read of one field was started, completed or not
ReadsStarted(what) ==
    {i \in DOMAIN inner : inner[i].what = what /\ inner[i].op \in {"read", "read_failed", "read_rejected"}}

\* the method this configuration requires, by the protocol
RequiredMethod == IF config.auth = NoAuthenticator THEN 0 ELSE 2

(* -------------------------------- C1 ----------------------------------- *)
\* C1 as stated: on every connection with skip_auth = false that has ended,
\* exactly one method-selection reply was written, before any read of the
\* request header.
C1_Original ==
    (config.skip_auth = FALSE /\ pc = "done") =>
        /\ Cardinality(Writes("method_reply")) = 1
        /\ \A j \in ReadsStarted("request_header") :
             \E i \in Writes("method_reply") : i < j

\* the method list was read completely: VER = 5 and all NMETHODS bytes came
MethodsRead == Reads("methods") # {} /\ pc # "can_accept_method"

\* C1 (amended): with skip_auth = false the server makes at most one write of
\* a 2-byte method-selection reply [0x05, method], exactly one once the
\* client's method list was read completely, none when VER # 5 or the client
\* closed before; and the reply is written before any byte of the request
\* header is read.
C1_MethodReplyOnceBeforeRequest ==
    config.skip_auth = FALSE =>
        /\ Cardinality(Writes("method_reply")) <= 1
        /\ MethodsRead <=> Cardinality(Writes("method_reply")) = 1
        /\ \A i \in Writes("method_reply") :
             Len(inner[i].bytes) = 2 /\ inner[i].bytes[1] = 5
        /\ \A j \in ReadsStarted("request_header") :
             \E i \in Writes("method_reply") : i < j /\ inner[i].op = "write"

\* C1 witness: a request header was read on a connection that negotiated
C1_Witness ==
    /\ config.skip_auth = FALSE
    /\ Reads("request_header") # {}
    /\ Cardinality(Writes("method_reply")) = 1

(* -------------------------------- C2 ----------------------------------- *)
IsRequestReply(bytes) == Len(bytes) = 10 /\ bytes[1] = 5 /\ bytes[3] = 0

\* C2 as stated: whenever the request header was read, exactly one 10-byte
\* reply [05, code, 00, ...] was written when upgrade_to_socks5 returns.
C2_Original ==
    (pc = "done" /\ Reads("request_header") # {}) =>
        /\ Cardinality(Writes("request_reply")) = 1
        /\ \A i \in Writes("request_reply") : IsRequestReply(inner[i].bytes)

\* C2 (amended): when the request header was read the server makes at most
\* one write of a request reply, it is 10 bytes with first byte 0x05 and
\* third byte 0x00 and comes after the header; when upgrade_to_socks5 has
\* returned there is exactly one if request() ended in a ReplyError or the
\* outbound connect succeeded, and none otherwise (VER # 5, execute_command
\* = false with nothing to report, an I/O error without a reply code).
C2_AtMostOneRequestReply ==
    /\ Cardinality(Writes("request_reply")) <= 1
    /\ \A i \in Writes("request_reply") :
         /\ IsRequestReply(inner[i].bytes)
         /\ \E j \in Reads("request_header") : j < i
    /\ pc = "done" =>
         (Cardinality(Writes("request_reply")) = 1
            <=> (reply_error # "-" \/ connect_outcome = "Connected"))
    /\ (pc = "done" /\ result.kind \in {"UnsupportedSocksVersion", "Io"}) =>
         Writes("request_reply") = {}
    /\ (pc = "done" /\ result = Ok /\ ~config.execute_command) =>
         Writes("request_reply") = {}

\* C2 witness: the task returned with one reply written after the header
C2_Witness ==
    /\ pc = "done"
    /\ Reads("request_header") # {}
    /\ Cardinality(Writes("request_reply")) = 1

(* -------------------------------- C3 ----------------------------------- *)
\* C3 as stated: every request reply comes after a complete read of the
\* address and port.
C3_Original ==
    \A i \in Writes("request_reply") : \E j \in Reads("address") : j < i

\* the reply code of the write at position i
Code(i) == inner[i].bytes[2]

\* C3 (amended): the method-selection reply is written only after all
\* NMETHODS method bytes were read, the sub-negotiation status only after
\* username and password were both read, a request reply only after the
\* 4-byte request header was read, and a request reply other than
\* CommandNotSupported (7) and AddressTypeNotSupported (8) only after the
\* address and port were read; CommandNotSupported is written with address
\* and port unread, AddressTypeNotSupported with the address unread or
\* incomplete.
C3_ReplyAfterPhaseRead ==
    /\ \A i \in Writes("method_reply") :
         /\ i = 3
         /\ inner[1].op = "read" /\ inner[1].what = "methods_header"
         /\ inner[2].op = "read" /\ inner[2].what = "methods"
         /\ Len(inner[2].bytes) = inner[1].bytes[2]
    /\ \A i \in Writes("auth_status") :
         /\ i = 8
         /\ inner[4].op = "read" /\ inner[4].what = "auth_header"
         /\ inner[5].op = "read" /\ inner[5].what = "username"
         /\ Len(inner[5].bytes) = inner[4].bytes[2]
         /\ inner[6].op = "read" /\ inner[6].what = "pass_len"
         /\ inner[7].op = "read" /\ inner[7].what = "password"
         /\ Len(inner[7].bytes) = inner[6].bytes[1]
    /\ \A i \in Writes("request_reply") :
         /\ \E j \in Reads("request_header") : j < i /\ Len(inner[j].bytes) = 4
         /\ Code(i) \notin {7, 8} => inner[i - 1].op = "read" /\ inner[i - 1].what = "address"
         /\ Code(i) = 7 => inner[i - 1].what = "request_header"
         /\ Code(i) = 8 => /\ inner[i - 1].op \in {"read_failed", "read_rejected"}
                            /\ inner[i - 1].what = "address"

\* C3 witness: all three replies were written on one connection
C3_Witness ==
    /\ Writes("method_reply") # {}
    /\ Writes("auth_status") # {}
    /\ \E i \in Writes("request_reply") : Code(i) = 0

(* -------------------------------- C4 ----------------------------------- *)
\* C4: when request() fails with a ReplyError, the reply carrying that
\* error's code is written exactly once before upgrade_to_socks5 returns it;
\* no connection gets two request replies, and none gets both a Succeeded
\* reply and an error reply.
C4_ReplyErrorRepliedOnce ==
    /\ Cardinality(Writes("request_reply")) <= 1
    /\ (pc = "done" /\ reply_error # "-") =>
         /\ reply_error \in ReplyErrors
         /\ Cardinality(Writes("request_reply")) = 1
         /\ \A i \in Writes("request_reply") :
              /\ i = Len(inner)
              /\ inner[i].bytes = <<5, as_u8(reply_error), 0, 1, 127, 0, 0, 1, 0, 0>>
    /\ (pc = "done" /\ result.kind = "ReplyError") =>
         /\ result.reply = reply_error
         /\ inner[Len(inner)].op = "write"
         /\ inner[Len(inner)].what = "request_reply"
    /\ (pc = "reply") => Writes("request_reply") = {} /\ reply_error \in ReplyErrors

\* C4 witness: upgrade_to_socks5 returned a ReplyError
C4_Witness == pc = "done" /\ result.kind = "ReplyError" /\ result.reply = "TtlExpired"

(* -------------------------------- C5 ----------------------------------- *)
\* C5: the required method is 0x02 with an authenticator and 0x00 without;
\* if the client's list contains it the server writes [0x05, required] and
\* continues, otherwise (NMETHODS = 0 included) it writes [0x05, 0xFF], fails
\* with AuthMethodUnacceptable and reads no further byte.
C5_MethodSelection ==
    /\ MethodsRead => Writes("method_reply") = {3}
    /\ \A i \in Writes("method_reply") :
         LET offered == inner[i - 1].bytes
         IN  /\ inner[i - 1].what = "methods"
             /\ IF \E k \in DOMAIN offered : offered[k] = RequiredMethod
                THEN /\ inner[i].bytes = <<5, RequiredMethod>>
                     /\ (inner[i].op = "write" /\ Len(inner) = i) =>
                          /\ result = Running
                          /\ pc = IF config.auth = NoAuthenticator
                                  THEN "read_command" ELSE "authenticate"
                ELSE /\ inner[i].bytes = <<5, 255>>
                     /\ Len(inner) = i
                     /\ pc = "done"
                     /\ inner[i].op = "write" => result = Err("AuthMethodUnacceptable")

\* C5 witness: a client offering only 0x00 to a server with an authenticator
\* was answered
C5_Witness ==
    /\ config.auth # NoAuthenticator
    /\ Len(inner) = 3
    /\ inner[2].bytes = <<0>>
    /\ inner[3].bytes = <<5, 255>>

(* -------------------------------- C6 ----------------------------------- *)
\* C6: the authenticator is invoked with exactly the username and password
\* bytes the client sent, and accepts iff they equal the configured pair; on
\* accept the server writes [0x01, 0x00], goes on to the request phase and
\* auth() is Password with those credentials; on reject it writes
\* [0x01, 0xFF], fails with AuthenticationRejected and never reads a request.
C6_SubNegotiation ==
    /\ Len(auth_calls) <= 1
    /\ Len(auth_calls) = Cardinality(Writes("auth_status"))
    /\ \A i \in Writes("auth_status") :
         LET call == auth_calls[1]
             sent_user == inner[i - 3].bytes
             sent_pass == inner[i - 1].bytes
             accepted == sent_user = config.auth.username /\ sent_pass = config.auth.password
         IN  /\ inner[i - 3].what = "username" /\ inner[i - 1].what = "password"
             /\ call.username = sent_user /\ call.password = sent_pass
             /\ call.accepted = accepted
             /\ IF accepted
                THEN /\ inner[i].bytes = <<1, 0>>
                     /\ inner[i].op = "write" =>
                          /\ auth = AuthPassword(sent_user, sent_pass)
                          /\ Len(inner) = i => pc = "read_command" /\ result = Running
                ELSE /\ inner[i].bytes = <<1, 255>>
                     /\ Len(inner) = i
                     /\ pc = "done"
                     /\ inner[i].op = "write" => result = Err("AuthenticationRejected")
                     /\ auth = AuthNone
    /\ auth.tag = "Password" => \E i \in Writes("auth_status") : inner[i].bytes = <<1, 0>>

\* C6 witness: accepted credentials, and the request was read afterwards
C6_Witness ==
    /\ Len(auth_calls) = 1 /\ auth_calls[1].accepted
    /\ Reads("request_header") # {}
    /\ auth.tag = "Password"

(* -------------------------------- C7 ----------------------------------- *)
\* C7: a request with VER = 5 whose CMD is not CONNECT gets the reply
\* 05 07 00 01 7F 00 00 01 00 00, neither resolution nor outbound connect is
\* attempted, and upgrade_to_socks5 returns an error.
C7_CommandNotSupported ==
    \A j \in Reads("request_header") :
        (inner[j].bytes[1] = 5 /\ inner[j].bytes[2] # 1) =>
            /\ pc \in {"reply", "done"}
            /\ dns_calls = 0 /\ connect_calls = 0
            /\ target_addr = NoTarget
            /\ ReadsStarted("address") = {}
            /\ pc = "done" =>
                 /\ result.tag = "Err"
                 /\ Len(inner) = j + 1
                 /\ inner[j + 1].op \in {"write", "write_failed"}
                 /\ inner[j + 1].bytes = <<5, 7, 0, 1, 127, 0, 0, 1, 0, 0>>
                 /\ result \in {ErrReply("CommandNotSupported"), Err("Other")}
                 /\ inner[j + 1].op = "write_failed" => result = Err("Other")

\* C7 witness: a BIND request was answered
C7_Witness ==
    /\ pc = "done"
    /\ \E j \in Reads("request_header") : inner[j].bytes[2] = 2 /\ inner[j].bytes[1] = 5
    /\ Writes("request_reply") # {}

(* -------------------------------- C8 ----------------------------------- *)
\* the reply code the protocol gives each outcome of the outbound connect
\* (-1: none of the outcomes C8 lists)
ExpectedCode(outcome) ==
    CASE outcome = "Connected" -> 0
      [] outcome = "TimedOut" -> 6
      [] outcome = "ConnectionRefused" -> 5
      [] outcome = "ConnectionAborted" -> 2
      [] outcome = "ConnectionReset" -> 2
      [] outcome = "NotConnected" -> 3
      [] OTHER -> -1

\* C8: the outcome of the outbound connect decides the reply code (success
\* 0x00, deadline expired 0x06, refused 0x05, aborted or reset 0x02,
\* not-connected 0x03); the connect never stays pending past its deadline,
\* and with request_timeout = 0 a target that does not answer gives
\* TtlExpired at once.
C8_ConnectOutcomeDecidesReply ==
    /\ (connect_outcome # "-" /\ ExpectedCode(connect_outcome) # -1) =>
         /\ connect_calls = 1
         /\ \A i \in Writes("request_reply") : Code(i) = ExpectedCode(connect_outcome)
         /\ pc = "done" => Cardinality(Writes("request_reply")) = 1
         /\ pc # "done" => pc \in {"reply", "write_success", "transfer"}
    /\ connect_outcome = "TimedOut" => elapsed = config.request_timeout
    /\ pc = "connect" =>
         /\ connect_outcome = "-"
         /\ elapsed <= config.request_timeout
         /\ elapsed = config.request_timeout =>
              (ENABLED connect_times_out) /\ ~(ENABLED tick)
         /\ config.request_timeout = 0 => ENABLED connect_times_out

\* C8 witness: the deadline of a request_timeout = 0 connection expired and
\* the client was told
C8_Witness ==
    /\ config.request_timeout = 0
    /\ connect_outcome = "TimedOut"
    /\ pc = "done"
    /\ \E i \in Writes("request_reply") : Code(i) = 6

(* -------------------------------- C9 ----------------------------------- *)
\* C9: when the outbound connect fails with an I/O error that is none of
\* refused, aborted, reset or not-connected, a request reply with code
\* GeneralFailure (0x01) is written before the task ends.
C9_GeneralFailureReplied ==
    (pc = "done" /\ connect_outcome \in ConnectErrorKinds
                 /\ ExpectedCode(connect_outcome) = -1) =>
        \E i \in Writes("request_reply") : Code(i) = 1

(* -------------------------------- C10 ---------------------------------- *)
\* a well-formed CONNECT request was read: header, address and port
WellFormedConnect == Reads("address") # {}

\* the target the client's request bytes name
ParsedTarget ==
    LET j == CHOOSE j \in Reads("address") : TRUE
        atyp == inner[j - 1].bytes[4]
        b == inner[j].bytes
        n == Len(b)
        port == b[n - 1] * 256 + b[n]
    IN  IF atyp = 3 THEN Domain(SubSeq(b, 2, n - 2), port)
        ELSE Ip(SubSeq(b, 1, n - 2), port)

\* the target upgrade_to_socks5 stored is the parsed one, a Domain resolved
\* when dns_resolve (the embedder has not called resolve_dns since)
TargetIsParsed ==
    manual_resolve.returned = "-" =>
        IF config.dns_resolve /\ ParsedTarget.tag = "Domain"
        THEN /\ target_addr.tag = "Ip"
             /\ target_addr.host \in ResolvedHosts
             /\ target_addr.port = ParsedTarget.port
        ELSE target_addr = ParsedTarget

\* C10 as stated: with execute_command = false every well-formed CONNECT
\* request ends in Ok, with no outbound connect, no relay, and the parsed
\* target stored.
C10_Original ==
    (~config.execute_command /\ WellFormedConnect /\ pc = "done") =>
        /\ result = Ok
        /\ connect_calls = 0
        /\ relayed.finished = "-"
        /\ TargetIsParsed

\* C10 (amended): with execute_command = false, after a well-formed CONNECT
\* request the driver attempts no outbound connect and starts no relay; it
\* returns Ok with the connection, writes no request reply, and
\* target_addr() is the parsed target (Domain(name, port) unresolved when
\* dns_resolve is false, the resolved Ip when it is true), unless dns_resolve
\* is set and the resolution of a Domain target fails: then it returns an
\* error.
C10_StopsAfterParsing ==
    (~config.execute_command /\ WellFormedConnect) =>
        /\ connect_calls = 0 /\ connect_outcome = "-"
        /\ relayed.client_to_target = 0 /\ relayed.target_to_client = 0
        /\ relayed.finished = "-" /\ relayed.how = "-"
        /\ pc \in {"resolve_dns", "reply", "done"}
        /\ ~config.dns_resolve => pc = "done" /\ dns_calls = 0
        /\ pc = "done" =>
             IF reply_error = "-"
             THEN /\ result = Ok
                  /\ TargetIsParsed
                  /\ Writes("request_reply") = {}
             ELSE /\ result.tag = "Err"
                  /\ reply_error = "HostUnreachable"
                  /\ config.dns_resolve /\ ParsedTarget.tag = "Domain" /\ dns_calls = 1

\* C10 witness: a Domain target handed back unresolved
C10_Witness ==
    /\ ~config.execute_command /\ ~config.dns_resolve
    /\ pc = "done" /\ result = Ok
    /\ target_addr = Domain(<<97, 97>>, 80)


(* -------------------------------- C11 ---------------------------------- *)
\* C11: with skip_auth = true the handshake is bypassed: the first bytes
\* read from the client are the 4-byte request header, no method-selection
\* reply and no sub-negotiation status is ever written, the authenticator
\* is never invoked even when one is configured, and auth() stays None.
C11_SkipAuthBypassesHandshake ==
    config.skip_auth =>
        /\ inner # <<>> =>
             /\ inner[1].what = "request_header"
             /\ inner[1].op = "read" => Len(inner[1].bytes) = 4
        /\ \A i \in DOMAIN inner : inner[i].what \in {"request_header", "address", "request_reply"}
        /\ Writes("method_reply") = {} /\ Writes("auth_status") = {}
        /\ auth_calls = <<>>
        /\ auth = AuthNone
        /\ pc \notin {"get_methods", "get_methods_body", "can_accept_method",
                      "authenticate", "authenticate_username", "authenticate_pass_len",
                      "authenticate_password", "authenticate_verify"}

\* C11 witness: a skip_auth connection with an authenticator configured
\* completed a request
C11_Witness ==
    /\ config.skip_auth /\ config.auth # NoAuthenticator
    /\ pc = "done" /\ result = Ok
    /\ Reads("address") # {}


(* -------------------------------- C12 ---------------------------------- *)
\* C12: the relay returns as soon as either copy has completed, by EOF or
\* by error, without waiting for the other: whenever a peer has closed or
\* reset during the relay, select can return at once, whatever the other
\* peer does, and the relay then terminates even if the other peer stays
\* open and silent forever.
C12_FirstFinisherWins ==
    /\ [](pc = "transfer" /\ (relayed.client # "open" \/ relayed.target # "open")
            => ENABLED transfer)
    /\ (pc = "transfer" /\ (relayed.client # "open" \/ relayed.target # "open"))
            ~> pc = "done"

\* C12 witness: the relay returned with the client-to-target copy, after
\* chunks moved in both directions, while the target was still open
C12_Witness ==
    /\ pc = "done"
    /\ relayed.finished = "client_to_target"
    /\ relayed.client = "closed" /\ relayed.target = "open"
    /\ relayed.client_to_target > 0 /\ relayed.target_to_client > 0


(* -------------------------------- C20 ---------------------------------- *)
\* C20: the relay always returns Ok: whichever copy select returned with,
\* and whether that copy ended by EOF or by an I/O error (a peer reset
\* included), upgrade_to_socks5 returns Ok; from the start of the relay on
\* the task never holds an error.
C20_RelayAlwaysReturnsOk ==
    /\ relayed.finished # "-" =>
         /\ pc = "done" /\ result = Ok
         /\ relayed.finished \in Directions
         /\ relayed.how \in {"eof", "error"}
         /\ relayed.how = "error" <=> relayed[src(relayed.finished)] = "reset"
    /\ pc = "transfer" => result = Running
    /\ (relayed.client # "open" \/ relayed.target # "open"
          \/ relayed.client_to_target > 0 \/ relayed.target_to_client > 0) =>
         /\ result \in {Running, Ok}
         /\ \E i \in Writes("request_reply") :
              inner[i].op = "write" /\ inner[i].bytes = success_bytes

\* C20 witness: the relay ended with the target-to-client copy failing on a
\* reset target, and the driver returned Ok
C20_Witness ==
    /\ pc = "done" /\ result = Ok
    /\ relayed.finished = "target_to_client" /\ relayed.how = "error"
    /\ relayed.target = "reset"


(* -------------------------------- C13 ---------------------------------- *)
\* C13: a framing/transport error ends the task without any request reply
\* being written: UnsupportedSocksVersion (after which nothing at all is
\* written in that phase: the last event on the stream is the header read),
\* AuthMethodUnacceptable, AuthenticationFailed, AuthenticationRejected, and
\* the client closing before a field is complete.
C13_FramingErrorsAreSilent ==
    /\ result \in {Err("UnsupportedSocksVersion"), Err("AuthMethodUnacceptable"),
                   Err("AuthenticationFailed"), Err("AuthenticationRejected")} =>
         Writes("request_reply") = {}
    /\ result = Err("UnsupportedSocksVersion") =>
         /\ inner[Len(inner)].op = "read"
         /\ inner[Len(inner)].what \in {"methods_header", "request_header"}
    /\ (\E i \in DOMAIN inner : inner[i].op = "read_failed") =>
         /\ Writes("request_reply") = {}
         /\ pc = "done" => result.tag = "Err" /\ result.reply = "-"

(* -------------------------------- C14 ---------------------------------- *)
\* the address read of the request failed: the stream ended inside the
\* address or the bytes read are not an address
AddressParseFailed ==
    \E i \in DOMAIN inner :
        inner[i].what = "address" /\ inner[i].op \in {"read_failed", "read_rejected"}

\* C14: any failure of the address parse of a CONNECT request (unknown ATYP,
\* domain of length 0, invalid domain bytes) is answered with the reply
\* 05 08 00 01 7F 00 00 01 00 00 and ends with AddressTypeNotSupported;
\* target_addr is never set and no resolution and no outbound connect is
\* attempted.
C14_AddressParseFailure ==
    AddressParseFailed =>
        /\ reply_error = "AddressTypeNotSupported"
        /\ target_addr = NoTarget
        /\ dns_calls = 0 /\ connect_calls = 0 /\ connect_outcome = "-"
        /\ pc \in {"reply", "done"}
        /\ \A i \in Writes("request_reply") :
             inner[i].bytes = <<5, 8, 0, 1, 127, 0, 0, 1, 0, 0>>
        /\ pc = "done" =>
             /\ Cardinality(Writes("request_reply")) = 1
             /\ result \in {ErrReply("AddressTypeNotSupported"), Err("Other")}
             /\ inner[Len(inner)].op = "write_failed" => result = Err("Other")

\* C14 witness: a domain of length 0 was answered with the reply
C14_Witness ==
    /\ pc = "done" /\ result = ErrReply("AddressTypeNotSupported")
    /\ \E i \in DOMAIN inner :
         /\ inner[i].what = "address" /\ inner[i].op = "read_rejected"
         /\ inner[i].bytes = <<0>>
    /\ inner[Len(inner)].op = "write"


PhaseRank(p) ==
    CASE p = "upgrade" -> 0
      [] p = "get_methods" -> 1
      [] p = "get_methods_body" -> 2
      [] p = "can_accept_method" -> 3
      [] p = "authenticate" -> 4
      [] p = "authenticate_username" -> 5
      [] p = "authenticate_pass_len" -> 6
      [] p = "authenticate_password" -> 7
      [] p = "authenticate_verify" -> 8
      [] p = "read_command" -> 9
      [] p = "read_address" -> 10
      [] p = "resolve_dns" -> 11
      [] p = "execute_command" -> 12
      [] p = "connect" -> 13
      [] p = "write_success" -> 14
      [] p = "transfer" -> 15
      [] p = "reply" -> 15
      [] p = "done" -> 16

MessageRank(what) ==
    CASE what = "methods_header" -> 1
      [] what = "methods" -> 2
      [] what = "method_reply" -> 3
      [] what = "auth_header" -> 4
      [] what = "username" -> 5
      [] what = "pass_len" -> 6
      [] what = "password" -> 7
      [] what = "auth_status" -> 8
      [] what = "request_header" -> 9
      [] what = "address" -> 10
      [] what = "request_reply" -> 11

\* the relay has started to act: a chunk moved, a peer ended, or select
\* returned
RelayActed ==
    \/ relayed.client_to_target > 0 \/ relayed.target_to_client > 0
    \/ relayed.client # "open" \/ relayed.target # "open"
    \/ relayed.finished # "-"

\* C16: within one connection the phases occur only in the order method
\* read, method reply, [sub-negotiation], request read, [resolution],
\* outbound connect, success reply, relay, end; no phase is repeated and no
\* step goes backward.  The outbound connect starts only after the request
\* was fully parsed, the Succeeded reply 05 00 00 01 7F 00 00 01 00 00 is
\* written only after the outbound connect succeeded, and nothing is
\* relayed before that reply was written and flushed.
C16_PhaseOrder ==
    /\ [][\/ PhaseRank(pc') > PhaseRank(pc)
          \/ pc' = pc /\ pc \in {"connect", "transfer", "done"}]_vars
    /\ [](\A i, j \in DOMAIN inner :
            i < j => MessageRank(inner[i].what) < MessageRank(inner[j].what))
    /\ [](connect_calls > 0 =>
            /\ connect_calls = 1
            /\ Reads("address") # {}
            /\ inner[Len(inner)].what \in {"address", "request_reply"}
            /\ target_addr # NoTarget)
    /\ [](\A i \in Writes("request_reply") :
            Code(i) = SOCKS5_REPLY_SUCCEEDED =>
                /\ connect_outcome = "Connected"
                /\ inner[i].bytes = <<5, 0, 0, 1, 127, 0, 0, 1, 0, 0>>
                /\ inner[i - 1].op = "read" /\ inner[i - 1].what = "address")
    /\ []((pc = "transfer" \/ RelayActed) =>
            /\ pc \in {"transfer", "done"}
            /\ result \in {Running, Ok}
            /\ inner[Len(inner)].op = "write"
            /\ inner[Len(inner)].what = "request_reply"
            /\ inner[Len(inner)].bytes = <<5, 0, 0, 1, 127, 0, 0, 1, 0, 0>>)

\* C16 witness: a connection went through every phase, sub-negotiation and
\* resolution included, relayed in both directions and ended
C16_Witness ==
    /\ pc = "done" /\ result = Ok
    /\ Writes("auth_status") # {}
    /\ dns_calls = 1
    /\ relayed.client_to_target > 0 /\ relayed.target_to_client > 0
    /\ relayed.finished # "-"


(* -------------------------------- C17 ---------------------------------- *)
\* C17: the connection's AuthenticationMethod is assigned at most once
\* after construction, at the end of a successful handshake, and never by
\* the request, resolution, connect or relay phases; it is Password{..}
\* only if the authenticator accepted those credentials, and it is None on
\* every connection without an authenticator or with skip_auth.
C17_AuthAssignedOnce ==
    /\ [][auth' # auth =>
            /\ auth = AuthNone
            /\ pc = "authenticate_verify" /\ pc' = "read_command"
            /\ auth' = AuthPassword(username, password)]_vars
    /\ [](auth # AuthNone =>
            /\ auth.tag = "Password"
            /\ Len(auth_calls) = 1
            /\ auth_calls[1] = [username |-> auth.username, password |-> auth.password,
                                accepted |-> TRUE]
            /\ Cardinality(Writes("auth_status")) = 1
            /\ PhaseRank(pc) >= PhaseRank("read_command"))
    /\ []((config.auth = NoAuthenticator \/ config.skip_auth) => auth = AuthNone)

\* C17 witness: the credentials stored at the end of the handshake are
\* still there after the relay ended
C17_Witness ==
    /\ auth = AuthPassword(<<97>>, <<97, 97>>)
    /\ pc = "done" /\ relayed.finished # "-"


(* -------------------------------- C18 ---------------------------------- *)
\* the username and the password were both read and one of them is not
\* valid UTF-8
CredentialsNotUtf8 ==
    /\ Reads("password") # {}
    /\ \/ \E i \in Reads("username") : ~from_utf8_ok(inner[i].bytes)
       \/ \E i \in Reads("password") : ~from_utf8_ok(inner[i].bytes)

\* C18: malformed credentials fail with AuthenticationFailed: ULEN = 0,
\* PLEN = 0, or a username or password that is not valid UTF-8 each end the
\* handshake with the error kind AuthenticationFailed, the authenticator is
\* not invoked and no status bytes are written; for ULEN = 0 no username or
\* password byte is read.
C18_MalformedCredentials ==
    /\ (\E i \in Reads("auth_header") : inner[i].bytes[2] = 0) =>
         /\ pc = "done" /\ result = Err("AuthenticationFailed")
         /\ auth_calls = <<>> /\ Writes("auth_status") = {}
         /\ inner[Len(inner)].what = "auth_header"
    /\ (\E i \in Reads("pass_len") : inner[i].bytes[1] = 0) =>
         /\ pc = "done" /\ result = Err("AuthenticationFailed")
         /\ auth_calls = <<>> /\ Writes("auth_status") = {}
    /\ (CredentialsNotUtf8 /\ pc # "authenticate_verify") =>
         /\ pc = "done" /\ result = Err("AuthenticationFailed")
         /\ auth_calls = <<>> /\ Writes("auth_status") = {}

(* -------------------------------- C19 ---------------------------------- *)
\* C19: the authenticator is invoked, and the status [0x01, 0x00] written,
\* only for a sub-negotiation message whose first byte is 0x01; a message
\* with any other first byte never leads to an accepted authentication.
C19_SubNegotiationVersion ==
    (\E i \in Reads("auth_header") : inner[i].bytes[1] # 1) =>
        /\ auth_calls = <<>>
        /\ Writes("auth_status") = {}
        /\ auth = AuthNone


(* -------------------------------- C21 ---------------------------------- *)
\* the request phase has begun: the driver is at or past the read of the
\* request header, a resolution was made or an outbound connect was started
RequestPhaseBegun ==
    \/ pc \in {"read_command", "read_address", "resolve_dns", "execute_command",
               "connect", "write_success", "reply", "transfer"}
    \/ ReadsStarted("request_header") # {} \/ ReadsStarted("address") # {}
    \/ Writes("request_reply") # {}
    \/ dns_calls > 0 \/ connect_calls > 0 \/ target_addr # NoTarget

\* C21: when an authenticator is configured and skip_auth = false, no
\* request byte is read, no resolution is made and no outbound connect is
\* attempted unless the authenticator has returned true for the credentials
\* received on this connection; the authenticator is invoked at most once
\* per connection.
C21_NoRequestBeforeAuthentication ==
    (config.auth # NoAuthenticator /\ ~config.skip_auth) =>
        /\ Len(auth_calls) <= 1
        /\ RequestPhaseBegun =>
             /\ Len(auth_calls) = 1
             /\ auth_calls[1].accepted
             /\ simple_authenticate(config.auth, auth_calls[1].username, auth_calls[1].password)
             /\ \E i \in Reads("username") : inner[i].bytes = auth_calls[1].username
             /\ \E i \in Reads("password") : inner[i].bytes = auth_calls[1].password
             /\ \E i \in Writes("auth_status") :
                  /\ inner[i].op = "write" /\ inner[i].bytes = <<1, 0>>
                  /\ \A j \in ReadsStarted("request_header") : i < j

\* C21 witness: on a connection with an authenticator, after the accepted
\* call a Domain target was resolved and the outbound connect started
C21_Witness ==
    /\ config.auth # NoAuthenticator /\ ~config.skip_auth
    /\ Len(auth_calls) = 1 /\ auth_calls[1].accepted
    /\ dns_calls = 1 /\ connect_calls = 1


(* -------------------------------- C22 ---------------------------------- *)
\* C22: the public resolve_dns changes the stored target only on success:
\* on an Ip target or an empty target it returns Ok and leaves
\* target_addr() unchanged, on a Domain target that resolves it stores the
\* Ip result, and when the resolution of a Domain target fails it returns
\* the error with target_addr() still holding the Domain value it held
\* before the call.
C22_ResolveChangesTargetOnlyOnSuccess ==
    /\ manual_resolve.returned = "Err" =>
         /\ manual_resolve.before.tag = "Domain"
         /\ target_addr = manual_resolve.before
    /\ (manual_resolve.returned = "Ok" /\ manual_resolve.before.tag \in {"Ip", "None"}) =>
         target_addr = manual_resolve.before
    /\ (manual_resolve.returned = "Ok" /\ manual_resolve.before.tag = "Domain") =>
         /\ target_addr.tag = "Ip"
         /\ target_addr.host \in ResolvedHosts
         /\ target_addr.port = manual_resolve.before.port

====
